---- MODULE Spec2Model ----
(***************************************************************************)
(* Model of consumer.py: the P2P microloan fraud detector.                 *)
(*                                                                         *)
(*   generate_data  -> df (a list of loan records)                         *)
(*   build_graph    -> G  (networkx DiGraph)                               *)
(*   detect_fraud   -> fraud_scores, suspicious_cycles                     *)
(*   visualize_graph-> net (pyvis Network, directed)                       *)
(*                                                                         *)
(* main() runs the four functions in that order; pc is main's position.    *)
(* Library calls are modelled by what they do on the values the program    *)
(* hands them: DiGraph.add_edge keeps ONE edge per ordered pair and        *)
(* overwrites its attributes; simple_cycles lists every elementary         *)
(* circuit once (self-loops included); betweenness_centrality is the       *)
(* normalised, unweighted, endpoint-free betweenness, in exact rational    *)
(* arithmetic (num/den) where Python uses floats; a directed pyvis         *)
(* Network appends one edge per add_edge call.                             *)
(***************************************************************************)
EXTENDS Integers, Sequences, FiniteSets

VARIABLES pc, args, df, fraud_users, G, cycles, fraud_scores, suspicious_cycles, net

vars == <<pc, args, df, fraud_users, G, cycles, fraud_scores, suspicious_cycles, net>>

(* ------------------------------ bounds -------------------------------- *)

\* Longest record list fed to the whole pipeline (specification Spec).
MaxRecords == 3
\* Longest record list fed to build_graph alone (specification SpecBuild).
MaxBuildRecords == 3
\* Longest record list of the scoring runs (specification SpecScore).
MaxScoreRecords == 3
\* Largest num_users handed to generate_data (specification SpecGen).
MaxUsers == 6

\* Longest record list of the cycle runs (specification SpecCycles).
MaxCycleRecords == 4

\* Participant ids of the pipeline runs, the build runs and the scoring runs.
PipelineUsers == {"A", "B", "C"}
BuildUsers == {"A", "B"}
ScoreUsers == {"A", "B", "C", "D"}
\* Amounts (np.round(uniform(..), 2) yields some positive number).
BuildAmounts == {100, 250}
LegitAmount == 100
FraudAmount == 1000
\* num_loans and fraud_ratio (in eighths, exact in binary floating point)
\* handed to generate_data.
NumLoansChoices == {0, 2}
RatioChoices == {4, 6, 8, 12}

Labels == {"Legit", "Fraud"}

(* ------------------------------ helpers ------------------------------- *)

Range(s) == {s[i] : i \in 1..Len(s)}

SeqsUpTo(S, n) == UNION {[1..k -> S] : k \in 0..n}

Max(a, b) == IF a >= b THEN a ELSE b

RECURSIVE Flatten(_)
Flatten(ss) == IF ss = <<>> THEN <<>> ELSE Head(ss) \o Flatten(Tail(ss))

Row(lender, borrower, amount, label) ==
    [Lender |-> lender, Borrower |-> borrower, Amount |-> amount, Label |-> label]

(* ----------------------------- build_graph ---------------------------- *)

EmptyGraph == [nodes |-> <<>>, edges |-> <<>>]

\* DiGraph._node: a node is created the first time it is named.
AddNode(g, n) ==
    IF n \in Range(g.nodes) THEN g ELSE [g EXCEPT !.nodes = Append(@, n)]

\* A plausible slip: a MultiDiGraph, which appends a parallel edge.
AddEdgeMulti(g, u, v, w, l) ==
    LET g1 == AddNode(AddNode(g, u), v)
    IN [g1 EXCEPT !.edges = Append(@, [from |-> u, to |-> v, weight |-> w, label |-> l])]

\* DiGraph.add_edge(u, v, weight=w, label=l): both endpoints are created as
\* needed; the pair's attribute dict is created or UPDATED in place.
AddEdge(g, u, v, w, l) ==
    LET g1 == AddNode(AddNode(g, u), v)
        e  == [from |-> u, to |-> v, weight |-> w, label |-> l]
        at == {i \in 1..Len(g1.edges) : g1.edges[i].from = u /\ g1.edges[i].to = v}
    IN IF at = {}
       THEN [g1 EXCEPT !.edges = Append(@, e)]
       ELSE [g1 EXCEPT !.edges = [i \in 1..Len(g1.edges) |->
                                    IF i \in at THEN e ELSE g1.edges[i]]]

RECURSIVE BuildFrom(_, _)
BuildFrom(g, rows) ==
    IF rows = <<>> THEN g
    ELSE BuildFrom(AddEdge(g, Head(rows).Lender, Head(rows).Borrower,
                           Head(rows).Amount, Head(rows).Label), Tail(rows))

build_graph(rows) == BuildFrom(EmptyGraph, rows)

Pos(g, n) == CHOOSE i \in 1..Len(g.nodes) : g.nodes[i] = n

HasEdge(g, u, v) == \E i \in 1..Len(g.edges) : g.edges[i].from = u /\ g.edges[i].to = v

\* G.edges(data=True): the adjacency is walked node by node (in node order),
\* each node's out-edges in the order they were first inserted.
EdgesFrom(g, u) == SelectSeq(g.edges, LAMBDA e : e.from = u)

EdgeView(g) == Flatten([i \in 1..Len(g.nodes) |-> EdgesFrom(g, g.nodes[i])])

(* ----------------------------- detect_fraud --------------------------- *)

HasEdgeIdx(g, i, j) == HasEdge(g, g.nodes[i], g.nodes[j])

\* A plausible slip in a cycle search: roots are not retired, so a circuit
\* is found once from each of its nodes (every rotation is listed).
RECURSIVE CircuitsThroughAll(_, _, _), ExtendAll(_, _, _, _)
CircuitsThroughAll(g, root, path) ==
    (IF HasEdgeIdx(g, path[Len(path)], root) THEN <<path>> ELSE <<>>)
        \o ExtendAll(g, root, path, 1)

ExtendAll(g, root, path, k) ==
    IF k > Len(g.nodes) THEN <<>>
    ELSE (IF HasEdgeIdx(g, path[Len(path)], k) /\ k \notin Range(path)
          THEN CircuitsThroughAll(g, root, Append(path, k))
          ELSE <<>>)
         \o ExtendAll(g, root, path, k + 1)

\* The elementary circuits whose least node (in node order) is root and that
\* begin with path: the circuit closed by the edge back to root, then every
\* extension by a later node not yet on the path.
RECURSIVE CircuitsThrough(_, _, _), Extend(_, _, _, _)
CircuitsThrough(g, root, path) ==
    (IF HasEdgeIdx(g, path[Len(path)], root) THEN <<path>> ELSE <<>>)
        \o Extend(g, root, path, root + 1)

Extend(g, root, path, k) ==
    IF k > Len(g.nodes) THEN <<>>
    ELSE (IF HasEdgeIdx(g, path[Len(path)], k) /\ k \notin Range(path)
          THEN CircuitsThrough(g, root, Append(path, k))
          ELSE <<>>)
         \o Extend(g, root, path, k + 1)

NamesOf(g, path) == [i \in 1..Len(path) |-> g.nodes[path[i]]]

SimpleCyclesRotations(g) ==
    LET found == Flatten([r \in 1..Len(g.nodes) |-> CircuitsThroughAll(g, r, <<r>>)])
    IN [i \in 1..Len(found) |-> NamesOf(g, found[i])]

\* A plausible slip: Johnson's algorithm proper, which leaves self-loops out.
SimpleCyclesNoSelfLoops(g) ==
    LET found == Flatten([r \in 1..Len(g.nodes) |-> Extend(g, r, <<r>>, r + 1)])
    IN [i \in 1..Len(found) |-> NamesOf(g, found[i])]

\* list(nx.simple_cycles(G)): every elementary circuit of G exactly once, a
\* self-loop as a circuit of one node.  Each is listed from its first node in
\* node order; the library fixes some rotation and some order of the list.
simple_cycles(g) ==
    LET found == Flatten([r \in 1..Len(g.nodes) |-> CircuitsThrough(g, r, <<r>>)])
    IN [i \in 1..Len(found) |-> NamesOf(g, found[i])]

\* The bound of line 45.
MaxCycleLen == 5

FilterShorter(cs) == SelectSeq(cs, LAMBDA c : Len(c) < MaxCycleLen)

\* suspicious_cycles = [cycle for cycle in cycles if len(cycle) <= 5]
FilterSuspicious(cs) == SelectSeq(cs, LAMBDA c : Len(c) <= MaxCycleLen)

(* betweenness_centrality(G): normalized=True, weight=None, endpoints=False *)

NodeSet(g) == Range(g.nodes)

SuccSet(g, S) == {v \in NodeSet(g) : \E u \in S : HasEdge(g, u, v)}

\* Breadth-first levels from the source: Levels[d+1] holds the nodes at d hops.
RECURSIVE Levels(_, _, _)
Levels(g, frontier, seen) ==
    IF frontier = {} THEN <<>>
    ELSE <<frontier>> \o Levels(g, SuccSet(g, frontier) \ seen,
                                seen \cup SuccSet(g, frontier))

\* Hop count from s to t, -1 when t is not reachable.
Dist(g, s, t) ==
    LET lv == Levels(g, {s}, {s})
        at == {d \in 1..Len(lv) : t \in lv[d]}
    IN IF at = {} THEN -1 ELSE (CHOOSE d \in at : TRUE) - 1

\* dist[i][j]: the hop count from node i to node j (positions in node order).
RECURSIVE DistRow(_, _, _), DistRows(_, _)
DistRow(g, i, j) ==
    IF j = 0 THEN <<>> ELSE Append(DistRow(g, i, j - 1), Dist(g, g.nodes[i], g.nodes[j]))

DistRows(g, i) ==
    IF i = 0 THEN <<>> ELSE Append(DistRows(g, i - 1), DistRow(g, i, Len(g.nodes)))

DistMatrix(g) == DistRows(g, Len(g.nodes))

\* Number of shortest paths from i to j (sigma): the sum of sigma over j's
\* predecessors one hop closer to i.
RECURSIVE Sigma(_, _, _, _), SigmaSum(_, _, _, _, _)
Sigma(g, dist, i, j) ==
    IF i = j THEN 1
    ELSE IF dist[i][j] < 0 THEN 0
    ELSE SigmaSum(g, dist, i, j, Len(g.nodes))

SigmaSum(g, dist, i, j, k) ==
    IF k = 0 THEN 0
    ELSE SigmaSum(g, dist, i, j, k - 1)
         + (IF HasEdgeIdx(g, k, j) /\ dist[i][k] >= 0 /\ dist[i][k] = dist[i][j] - 1
            THEN Sigma(g, dist, i, k) ELSE 0)

RECURSIVE SigmaRow(_, _, _, _), SigmaRows(_, _, _)
SigmaRow(g, dist, i, j) ==
    IF j = 0 THEN <<>> ELSE Append(SigmaRow(g, dist, i, j - 1), Sigma(g, dist, i, j))

SigmaRows(g, dist, i) ==
    IF i = 0 THEN <<>> ELSE Append(SigmaRows(g, dist, i - 1), SigmaRow(g, dist, i, Len(g.nodes)))

SigmaMatrix(g, dist) == SigmaRows(g, dist, Len(g.nodes))

\* Shortest i-j paths that pass through v.
SigmaThrough(dist, sig, i, j, v) ==
    IF dist[i][v] >= 0 /\ dist[v][j] >= 0 /\ dist[i][v] + dist[v][j] = dist[i][j]
    THEN sig[i][v] * sig[v][j]
    ELSE 0

RECURSIVE Gcd(_, _)
Gcd(a, b) == IF b = 0 THEN a ELSE Gcd(b, a % b)

Lcm(a, b) == (a * b) \div Gcd(a, b)

\* The ordered pairs (i, j), i # j, with j reachable from i.
ConnectedPairs(dist) ==
    {p \in (1..Len(dist)) \X (1..Len(dist)) : p[1] # p[2] /\ dist[p[1]][p[2]] > 0}

RECURSIVE LcmOver(_, _, _)
LcmOver(sig, P, acc) ==
    IF P = {} THEN acc
    ELSE LET p == CHOOSE x \in P : TRUE
         IN LcmOver(sig, P \ {p}, Lcm(acc, sig[p[1]][p[2]]))

\* A common denominator of the pair dependencies sigma_st(v) / sigma_st.
CommonDen(dist, sig) == LcmOver(sig, ConnectedPairs(dist), 1)

RECURSIVE DependencySum(_, _, _, _, _, _)
DependencySum(dist, sig, P, v, D, acc) ==
    IF P = {} THEN acc
    ELSE LET p == CHOOSE x \in P : TRUE
         IN DependencySum(dist, sig, P \ {p}, v, D,
                acc + (SigmaThrough(dist, sig, p[1], p[2], v) * D) \div sig[p[1]][p[2]])

\* D times the unnormalised betweenness of node v: the sum over s # v # t of
\* sigma_st(v) / sigma_st.
RawBetweenness(dist, sig, v, D) ==
    DependencySum(dist, sig, {p \in ConnectedPairs(dist) : p[1] # v /\ p[2] # v}, v, D, 0)

\* _rescale: scale = 1/((n-1)(n-2)) for n > 2, and no scaling for n <= 2.
\* The value is what the raw betweenness is divided by.
Rescale(n) == IF n <= 2 THEN 1 ELSE (n - 1) * (n - 2)

\* A plausible slip: only nodes that have an out-edge are given a score.
BetweennessOfSources(g) ==
    LET dist == DistMatrix(g)
        sig == SigmaMatrix(g, dist)
        D == CommonDen(dist, sig)
        n == Len(g.nodes)
    IN [v \in {x \in NodeSet(g) : \E y \in NodeSet(g) : HasEdge(g, x, y)} |->
          [num |-> RawBetweenness(dist, sig, Pos(g, v), D), den |-> D * Rescale(n)]]

\* The score of every node of G as the fraction num/den.
betweenness_centrality(g) ==
    LET dist == DistMatrix(g)
        sig == SigmaMatrix(g, dist)
        D == CommonDen(dist, sig)
        n == Len(g.nodes)
    IN [v \in NodeSet(g) |->
          [num |-> RawBetweenness(dist, sig, Pos(g, v), D), den |-> D * Rescale(n)]]

(* ---------------------------- visualize_graph ------------------------- *)

EmptyNetwork == [nodes |-> <<>>, edges |-> <<>>]

\* "red" if score > 0.1 else "green"
NodeColor(score) == IF score.num * 10 > score.den THEN "red" ELSE "green"

\* net.add_node(node, label=node, title=.., color=.., size=15 + score * 50):
\* pyvis keeps one node per id.
NetAddNode(n, id, score) ==
    IF \E i \in 1..Len(n.nodes) : n.nodes[i].id = id THEN n
    ELSE [n EXCEPT !.nodes = Append(@, [id |-> id, label |-> id, score |-> score,
                                        color |-> NodeColor(score),
                                        size |-> [num |-> 15 * score.den + 50 * score.num,
                                                  den |-> score.den]])]

\* A plausible slip: the Network built undirected, where pyvis drops an edge
\* whose pair is already joined in either direction.
NetAddEdgeUndirected(n, e) ==
    IF \E i \in 1..Len(n.edges) :
          \/ (n.edges[i].from = e.from /\ n.edges[i].to = e.to)
          \/ (n.edges[i].from = e.to /\ n.edges[i].to = e.from)
    THEN n
    ELSE [n EXCEPT !.edges = Append(@, [from |-> e.from, to |-> e.to, weight |-> e.weight,
                                        label |-> e.label, marks |-> 0,
                                        color |-> IF e.label = "Fraud" THEN "orange" ELSE "gray"])]

\* net.add_edge(source, target, title=f"${weight} | {label}", color=..) on a
\* directed Network: the edge is appended.  The title is kept as its parts:
\* weight, label and the number of " (Cycle)" suffixes (marks).
NetAddEdge(n, e) ==
    [n EXCEPT !.edges = Append(@, [from |-> e.from, to |-> e.to, weight |-> e.weight,
                                   label |-> e.label, marks |-> 0,
                                   color |-> IF e.label = "Fraud" THEN "orange" ELSE "gray"])]

RECURSIVE AddNodes(_, _, _)
AddNodes(n, ids, scores) ==
    IF ids = <<>> THEN n
    ELSE AddNodes(NetAddNode(n, Head(ids), scores[Head(ids)]), Tail(ids), scores)

RECURSIVE AddEdges(_, _)
AddEdges(n, es) ==
    IF es = <<>> THEN n ELSE AddEdges(NetAddEdge(n, Head(es)), Tail(es))

\* A plausible slip: the wraparound pair (last, first) is left out.
MarkPairNoWrap(n, cycle, i) ==
    IF i = Len(cycle) THEN n
    ELSE [n EXCEPT !.edges = [k \in 1..Len(n.edges) |->
            IF n.edges[k].from = cycle[i] /\ n.edges[k].to = cycle[i + 1]
            THEN [n.edges[k] EXCEPT !.color = "purple", !.marks = @ + 1]
            ELSE n.edges[k]]]

\* Lines 66-71: source = cycle[i], target = cycle[(i+1) % len(cycle)]
\* (1-based here); every rendered edge from source to target turns purple
\* and has " (Cycle)" appended to its title.
MarkPair(n, cycle, i) ==
    [n EXCEPT !.edges = [k \in 1..Len(n.edges) |->
        IF n.edges[k].from = cycle[i] /\ n.edges[k].to = cycle[(i % Len(cycle)) + 1]
        THEN [n.edges[k] EXCEPT !.color = "purple", !.marks = @ + 1]
        ELSE n.edges[k]]]

RECURSIVE MarkCycle(_, _, _)
MarkCycle(n, cycle, i) ==
    IF i > Len(cycle) THEN n ELSE MarkCycle(MarkPair(n, cycle, i), cycle, i + 1)

RECURSIVE Highlight(_, _)
Highlight(n, cs) ==
    IF cs = <<>> THEN n ELSE Highlight(MarkCycle(n, Head(cs), 1), Tail(cs))

visualize_graph(g, scores, suspicious) ==
    Highlight(AddEdges(AddNodes(EmptyNetwork, g.nodes, scores), EdgeView(g)), suspicious)

(* ----------------------------- generate_data -------------------------- *)

\* users = [f'User_{i}' for i in range(num_users)]
UserNames == <<"User_0", "User_1", "User_2", "User_3", "User_4", "User_5", "User_6", "User_7">>

\* random.sample(users, k): k distinct positions, in any order.
Samples(num_users, k) ==
    {f \in [1..k -> 1..num_users] : \A i, j \in 1..k : i # j => f[i] # f[j]}

\* int(num_loans * (1 - fraud_ratio)), fraud_ratio = ratio8 / 8
NumLegit(num_loans, ratio8) == (num_loans * (8 - ratio8)) \div 8

\* max(3, int(num_users * fraud_ratio))
NumFraud(num_users, ratio8) == Max(3, (num_users * ratio8) \div 8)

LegitRows(picks) ==
    [i \in 1..Len(picks) |->
        Row(UserNames[picks[i][1]], UserNames[picks[i][2]], LegitAmount, "Legit")]

\* A plausible slip: the ring is left open (no loan from the last user back
\* to the first).
FraudRowsOpen(ring) ==
    [i \in 1..(Len(ring) - 1) |->
        Row(UserNames[ring[i]], UserNames[ring[i + 1]], FraudAmount, "Fraud")]

\* Lines 23-27: lender fraud_users[i], borrower fraud_users[(i+1) % len].
FraudRows(ring) ==
    [i \in 1..Len(ring) |->
        Row(UserNames[ring[i]], UserNames[ring[(i % Len(ring)) + 1]], FraudAmount, "Fraud")]

(* -------------------------------- actions ----------------------------- *)

\* generate_data(num_users, num_loans, fraud_ratio); random.sample raises
\* ValueError when asked for more users than there are.
GenerateData ==
    /\ pc = "start"
    /\ \E num_users \in 2..MaxUsers, num_loans \in NumLoansChoices, ratio8 \in RatioChoices :
         IF NumFraud(num_users, ratio8) > num_users
         THEN /\ pc' = "raised"
              /\ args' = [num_users |-> num_users, num_loans |-> num_loans, ratio8 |-> ratio8]
              /\ UNCHANGED <<df, fraud_users>>
         ELSE \E picks \in [1..NumLegit(num_loans, ratio8) -> Samples(num_users, 2)],
                 ring \in Samples(num_users, NumFraud(num_users, ratio8)) :
                    /\ df' = LegitRows(picks) \o FraudRows(ring)
                    /\ fraud_users' = [i \in 1..Len(ring) |-> UserNames[ring[i]]]
                    /\ args' = [num_users |-> num_users, num_loans |-> num_loans,
                                ratio8 |-> ratio8]
                    /\ pc' = "loaded"
    /\ UNCHANGED <<G, cycles, fraud_scores, suspicious_cycles, net>>

\* G = build_graph(df)
BuildGraph ==
    /\ pc = "loaded"
    /\ G' = build_graph(df)
    /\ pc' = "built"
    /\ UNCHANGED <<args, df, fraud_users, cycles, fraud_scores, suspicious_cycles, net>>

\* fraud_scores, suspicious_cycles = detect_fraud(G); a zero divisor in the
\* normalisation would raise ZeroDivisionError.
DetectFraud ==
    /\ pc = "built"
    /\ IF Rescale(Len(G.nodes)) = 0
       THEN /\ pc' = "raised"
            /\ UNCHANGED <<cycles, fraud_scores, suspicious_cycles>>
       ELSE /\ cycles' = simple_cycles(G)
            /\ fraud_scores' = betweenness_centrality(G)
            /\ suspicious_cycles' = FilterSuspicious(simple_cycles(G))
            /\ pc' = "detected"
    /\ UNCHANGED <<args, df, fraud_users, G, net>>

\* net = visualize_graph(G, fraud_scores, suspicious_cycles); the lookup
\* fraud_scores[node] raises KeyError for a node without a score.
VisualizeGraph ==
    /\ pc = "detected"
    /\ IF \E v \in NodeSet(G) : v \notin DOMAIN fraud_scores
       THEN /\ pc' = "raised"
            /\ UNCHANGED net
       ELSE /\ net' = visualize_graph(G, fraud_scores, suspicious_cycles)
            /\ pc' = "rendered"
    /\ UNCHANGED <<args, df, fraud_users, G, cycles, fraud_scores, suspicious_cycles>>

(* ----------------------------- specifications ------------------------- *)

RowsOver(users, amounts, labels) ==
    {Row(u, v, a, l) : u \in users, v \in users, a \in amounts, l \in labels}

Blank ==
    /\ args = <<>>
    /\ fraud_users = <<>>
    /\ G = EmptyGraph
    /\ cycles = <<>>
    /\ fraud_scores = <<>>
    /\ suspicious_cycles = <<>>
    /\ net = EmptyNetwork

\* The pipeline on an arbitrary record list.
Init ==
    /\ pc = "loaded"
    /\ df \in SeqsUpTo(RowsOver(PipelineUsers, {LegitAmount}, Labels), MaxRecords)
    /\ Blank

Next == BuildGraph \/ DetectFraud \/ VisualizeGraph

Spec == Init /\ [][Next]_vars

\* build_graph alone, on records with varying amounts and labels.
InitBuild ==
    /\ pc = "loaded"
    /\ df \in SeqsUpTo(RowsOver(BuildUsers, BuildAmounts, Labels), MaxBuildRecords)
    /\ Blank

NextBuild == BuildGraph

SpecBuild == InitBuild /\ [][NextBuild]_vars

\* The pipeline on longer record lists, all labelled Legit, for the cycles.
InitCycles ==
    /\ pc = "loaded"
    /\ df \in SeqsUpTo(RowsOver(PipelineUsers, {LegitAmount}, {"Legit"}), MaxCycleRecords)
    /\ Blank

NextCycles == BuildGraph \/ DetectFraud \/ VisualizeGraph

SpecCycles == InitCycles /\ [][NextCycles]_vars

\* The pipeline on four participants, for the scores.
InitScore ==
    /\ pc = "loaded"
    /\ df \in SeqsUpTo(RowsOver(ScoreUsers, {LegitAmount}, {"Legit"}), MaxScoreRecords)
    /\ Blank

NextScore == BuildGraph \/ DetectFraud \/ VisualizeGraph

SpecScore == InitScore /\ [][NextScore]_vars

\* main(): the pipeline on generated data.
InitGen ==
    /\ pc = "start"
    /\ df = <<>>
    /\ Blank

NextGen == GenerateData \/ BuildGraph \/ DetectFraud \/ VisualizeGraph

SpecGen == InitGen /\ [][NextGen]_vars

(* -------------------------------- claims ------------------------------ *)

Built == pc \in {"built", "detected", "rendered"}
Detected == pc \in {"detected", "rendered"}
Rendered == pc = "rendered"

RowPair(r) == <<r.Lender, r.Borrower>>
EdgePair(e) == <<e.from, e.to>>

PairsOf(rows) == {RowPair(rows[i]) : i \in 1..Len(rows)}

\* The last record of rows that names the ordered pair p.
LastRow(rows, p) ==
    rows[CHOOSE i \in 1..Len(rows) :
            /\ RowPair(rows[i]) = p
            /\ \A j \in (i + 1)..Len(rows) : RowPair(rows[j]) # p]

\* b is a rotation of a.
IsRotation(a, b) ==
    /\ Len(a) = Len(b)
    /\ \E k \in 0..(Len(a) - 1) : \A i \in 1..Len(a) : b[i] = a[((i - 1 + k) % Len(a)) + 1]

\* Some cycle of cs holds u immediately followed by v, the last element
\* being followed by the first.
OnCycleOf(cs, u, v) ==
    \E n \in 1..Len(cs) : \E i \in 1..Len(cs[n]) :
        cs[n][i] = u /\ cs[n][(i % Len(cs[n])) + 1] = v

\* C1: build_graph returns one edge per record, so the number of edges equals
\* the number of records (parallel edges are kept apart).
C1_OneEdgePerRecord == Built => Len(G.edges) = Len(df)

\* C8: after build_graph the graph has exactly one edge per distinct ordered
\* (lender, borrower) pair of the records, carrying the weight and label of
\* the LAST record with that pair, and its nodes are exactly the ids that
\* occur as a lender or a borrower.
C8_LastRecordWins ==
    Built =>
        /\ \A p \in PairsOf(df) :
              Cardinality({k \in 1..Len(G.edges) : EdgePair(G.edges[k]) = p}) = 1
        /\ \A k \in 1..Len(G.edges) :
              /\ EdgePair(G.edges[k]) \in PairsOf(df)
              /\ G.edges[k].weight = LastRow(df, EdgePair(G.edges[k])).Amount
              /\ G.edges[k].label = LastRow(df, EdgePair(G.edges[k])).Label
        /\ NodeSet(G) = {df[i].Lender : i \in 1..Len(df)} \cup {df[i].Borrower : i \in 1..Len(df)}
        /\ Cardinality(NodeSet(G)) = Len(G.nodes)

\* A 'Fraud' record followed by a 'Legit' one for the same pair has been
\* built into a single 'Legit' edge.
C8_Witness ==
    /\ pc = "built"
    /\ \E i, j \in 1..Len(df) :
          /\ i < j
          /\ RowPair(df[i]) = RowPair(df[j])
          /\ df[i].Label = "Fraud" /\ df[j].Label = "Legit"
          /\ df[i].Amount # df[j].Amount
          /\ \E k \in 1..Len(G.edges) :
                /\ EdgePair(G.edges[k]) = RowPair(df[j])
                /\ G.edges[k].label = "Legit"
                /\ G.edges[k].weight = df[j].Amount
    /\ Len(G.edges) < Len(df)

C4_CyclesCanonical ==
    Detected =>
        /\ \A i, j \in 1..Len(cycles) : i # j => ~IsRotation(cycles[i], cycles[j])
        /\ \A i \in 1..Len(cycles) :
              LET c == cycles[i] IN
              /\ Len(c) >= 1
              /\ \A a, b \in 1..Len(c) : a # b => c[a] # c[b]
              /\ \A a \in 1..Len(c) : HasEdge(G, c[a], c[(a % Len(c)) + 1])

\* Two cycles of different lengths that share an edge have been enumerated.
C4_Witness ==
    /\ Detected
    /\ \E i, j \in 1..Len(cycles) :
          /\ Len(cycles[i]) = 2 /\ Len(cycles[j]) = 3
          /\ \E u, v \in NodeSet(G) :
                OnCycleOf(<<cycles[i]>>, u, v) /\ OnCycleOf(<<cycles[j]>>, u, v)

\* Nodes reachable from S in one or more hops.
RECURSIVE ReachFrom(_, _, _)
ReachFrom(g, frontier, seen) ==
    IF SuccSet(g, frontier) \subseteq seen THEN seen
    ELSE ReachFrom(g, SuccSet(g, frontier) \ seen, seen \cup SuccSet(g, frontier))

Acyclic(g) == \A v \in NodeSet(g) : v \notin ReachFrom(g, {v}, {})

SelfLoopUsers == {df[i].Lender : i \in {k \in 1..Len(df) : df[k].Lender = df[k].Borrower}}

\* C6: a record with lender = borrower becomes a self-loop edge, the run
\* never raises, the self-loop is listed as a cycle of length 1 and is
\* suspicious, and a graph without cycles yields an empty cycle list.
C6_SelfLoopsHandled ==
    /\ pc # "raised"
    /\ Built => \A u \in SelfLoopUsers : HasEdge(G, u, u)
    /\ Detected => \A u \in SelfLoopUsers :
          /\ \E i \in 1..Len(cycles) : cycles[i] = <<u>>
          /\ \E i \in 1..Len(suspicious_cycles) : suspicious_cycles[i] = <<u>>
    /\ (Detected /\ Acyclic(G)) => (cycles = <<>> /\ suspicious_cycles = <<>>)

\* The pipeline has run to the end on records holding a self-loop, which is
\* rendered as a marked edge.
C6_Witness ==
    /\ Rendered
    /\ \E u \in SelfLoopUsers :
          /\ \E i \in 1..Len(suspicious_cycles) : suspicious_cycles[i] = <<u>>
          /\ \E k \in 1..Len(net.edges) :
                net.edges[k].from = u /\ net.edges[k].to = u /\ net.edges[k].color = "purple"
    /\ Len(G.nodes) > 1

\* v lies strictly inside some shortest path between two other nodes.
OnShortestPath(g, v) ==
    \E s, t \in NodeSet(g) \ {v} :
        /\ s # t
        /\ Dist(g, s, v) > 0 /\ Dist(g, v, t) > 0
        /\ Dist(g, s, t) = Dist(g, s, v) + Dist(g, v, t)

\* C7: the scores have every node of the graph as a key (the lookup in
\* visualize_graph never fails and nothing raises), every score lies in
\* [0,1], a node on no shortest path between two other nodes scores 0, and
\* on a graph of fewer than 3 nodes every score is 0.
C7_ScoresTotalAndBounded ==
    /\ pc # "raised"
    /\ Detected =>
          /\ DOMAIN fraud_scores = NodeSet(G)
          /\ \A v \in NodeSet(G) :
                /\ fraud_scores[v].den > 0
                /\ 0 <= fraud_scores[v].num
                /\ fraud_scores[v].num <= fraud_scores[v].den
                /\ ~OnShortestPath(G, v) => fraud_scores[v].num = 0
                /\ Len(G.nodes) < 3 => fraud_scores[v].num = 0

\* Four nodes have been scored and rendered: one strictly between 0 and 1,
\* one at 0.
C7_Witness ==
    /\ Rendered
    /\ Len(G.nodes) = 4
    /\ \E v, w \in NodeSet(G) :
          /\ 0 < fraud_scores[v].num /\ fraud_scores[v].num < fraud_scores[v].den
          /\ fraud_scores[w].num = 0
    /\ Len(net.nodes) = 4

\* C9: detect_fraud and visualize_graph leave G as build_graph made it, and
\* the rendered network holds exactly one node per node of G and one edge per
\* edge of G, with the edge's own endpoints, weight and label: highlighting
\* rewrites colour and title only.
C9_GraphUnchangedAndRenderedOnce ==
    /\ Detected => G = build_graph(df)
    /\ Rendered =>
          /\ Len(net.nodes) = Len(G.nodes)
          /\ \A i \in 1..Len(G.nodes) : net.nodes[i].id = G.nodes[i]
          /\ Len(net.edges) = Len(G.edges)
          /\ \A k \in 1..Len(net.edges) :
                /\ net.edges[k].from = EdgeView(G)[k].from
                /\ net.edges[k].to = EdgeView(G)[k].to
                /\ net.edges[k].weight = EdgeView(G)[k].weight
                /\ net.edges[k].label = EdgeView(G)[k].label

\* An edge that lies on two suspicious cycles has been highlighted twice and
\* is still rendered once, beside its reverse edge.
C9_Witness ==
    /\ Rendered
    /\ \E k, m \in 1..Len(net.edges) :
          /\ net.edges[k].marks = 2
          /\ net.edges[k].color = "purple"
          /\ net.edges[m].from = net.edges[k].to /\ net.edges[m].to = net.edges[k].from
          /\ k # m
          /\ Cardinality({j \in 1..Len(net.edges) :
                             EdgePair(net.edges[j]) = EdgePair(net.edges[k])}) = 1

OnlyARing(g) ==
    /\ Len(cycles) = 1
    /\ Len(cycles[1]) = Len(g.nodes)
    /\ Len(g.edges) = Len(g.nodes)

C5_BoundAppliedDuringGeneration ==
    Detected => \A i \in 1..Len(cycles) : Len(cycles[i]) <= MaxCycleLen

Generated == pc \in {"loaded", "built", "detected", "rendered"}

FraudIndices == {i \in 1..Len(df) : df[i].Label = "Fraud"}

====
